---- MODULE Spec2Model ----
(***************************************************************************)
(* A model of LockerController (src/locker_controller.py): the serial      *)
(* protocol engine of a refrigerated parcel locker.                        *)
(*                                                                         *)
(* Conventions.                                                            *)
(*  - A hex string of the code ("0b", data_hex, frame_hex) is a sequence   *)
(*    of hex digits 0..15; two digits are one byte, so the 44-byte status  *)
(*    frame is the 88-digit string the code tests for.  Python slices      *)
(*    s[a:b] are Slice(s, a, b) with the same 0-based bounds.              *)
(*  - A temperature (a float with half-degree resolution in the code) is   *)
(*    an integer count of half degrees: 5.5 C is 11, -4.0 C is -8.         *)
(*  - Each thread of the program is a process with a program counter; one  *)
(*    action is one step between two accesses to shared data.              *)
(***************************************************************************)
EXTENDS Integers, Sequences, FiniteSets, TLC

\* ------------------------------------------------------------------ codec

Slice(s, a, b) ==
    LET lo == IF a < 0 THEN (IF Len(s) + a < 0 THEN 0 ELSE Len(s) + a) ELSE (IF a > Len(s) THEN Len(s) ELSE a)
        hi == IF b < 0 THEN (IF Len(s) + b < 0 THEN 0 ELSE Len(s) + b) ELSE (IF b > Len(s) THEN Len(s) ELSE b)
    IN  IF hi <= lo THEN << >> ELSE [i \in 1..(hi - lo) |-> s[lo + i]]

\* The n low hex digits of value, most significant first.
HexDigits(value, n) == [i \in 1..n |-> (value \div (16 ^ (n - i))) % 16]

\* The number of hex digits of value (at least one).
HexLen(value) == CHOOSE k \in 1..8 : value < 16 ^ k /\ (k = 1 \/ value >= 16 ^ (k - 1))

\* f'{value:0{byte_count*2}x}': at least 2*byte_count digits, more when the
\* value does not fit.
int_to_hex_str(value, byte_count) ==
    LET w == IF HexLen(value) > 2 * byte_count THEN HexLen(value) ELSE 2 * byte_count
    IN  HexDigits(value, w)

\* int(s, 16)
HexValue(s) ==
    LET v[i \in 0..Len(s)] == IF i = 0 THEN 0 ELSE 16 * v[i - 1] + s[i]
    IN  v[Len(s)]

\* unhexlify / bytes.fromhex: the bytes of an even-length hex string.
unhexlify(s) == [i \in 1..(Len(s) \div 2) |-> 16 * s[2 * i - 1] + s[2 * i]]

\* x xor p, for p a power of two: the bit of weight p inverted.
FlipBit(x, p) == IF (x \div p) % 2 = 1 THEN x - p ELSE x + p

\* x xor (256 * byte): the byte xor-ed into the high byte of a 16-bit x.
XorHigh(x, byte) ==
    LET bit(k) == (byte \div (2 ^ k)) % 2 = 1
        flip(y, k) == IF bit(k) THEN FlipBit(y, 256 * (2 ^ k)) ELSE y
    IN  flip(flip(flip(flip(flip(flip(flip(flip(x, 0), 1), 2), 3), 4), 5), 6), 7)

\* One bit of the shift register of polynomial 0x1021 (mkCrcFun(0x11021,
\* rev=False)): shift left, and xor 0x1021 in when the bit shifted out is 1.
CrcBit(crc) ==
    IF crc >= 32768
    THEN FlipBit(FlipBit(FlipBit((2 * crc) % 65536, 4096), 32), 1)
    ELSE 2 * crc

\* One input byte: xor it into the high byte, then eight shifts.
CrcByte(crc, byte) ==
    CrcBit(CrcBit(CrcBit(CrcBit(CrcBit(CrcBit(CrcBit(CrcBit(XorHigh(crc, byte)))))))))

\* The table crcmod derives from the polynomial: the register a byte leaves
\* when it enters an empty register.
CrcTable == [byte \in 0..255 |-> CrcByte(0, byte)]

\* a xor b for two hex digits, and for two bytes.
Xor4 == [a \in 0..15 |-> [b \in 0..15 |->
            LET d(k) == IF (a \div (2 ^ k)) % 2 = (b \div (2 ^ k)) % 2 THEN 0 ELSE 2 ^ k
            IN  d(0) + d(1) + d(2) + d(3)]]
Xor8(a, b) == 16 * Xor4[a \div 16][b \div 16] + Xor4[a % 16][b % 16]

\* crcmod's update for one byte: table[(crc >> 8) ^ byte] ^ (crc << 8).
CrcUpdate(crc, byte) ==
    LET entry == CrcTable[Xor8(crc \div 256, byte)]
    IN  256 * Xor8(crc % 256, entry \div 256) + (entry % 256)

\* The register after each prefix of the bytes, from the initial value.
CrcBytes(bytes, init) ==
    LET c[i \in 0..Len(bytes)] ==
            IF i = 0 THEN init
            ELSE LET prev == c[i - 1]
                 IN  IF prev >= 0 THEN CrcUpdate(prev, bytes[i]) ELSE prev
    IN  c[Len(bytes)]

\* crcmod.mkCrcFun(0x11021, rev=False, initCrc=0x0000, xorOut=0x0000)
crc16_func(bytes) == CrcBytes(bytes, 0)

\* The CRC's four digits in the order of the number, high byte first.
calculate_crc_unswapped(data_hex) == HexDigits(crc16_func(unhexlify(data_hex)), 4)

\* _calculate_crc of an even-length hex string: the CRC's four digits with
\* the two bytes swapped.
calculate_crc(data_hex) ==
    LET d == HexDigits(crc16_func(unhexlify(data_hex)), 4)
    IN  << d[3], d[4], d[1], d[2] >>

\* A check that accepts every buffer.
verify_any(received_hex) == TRUE

\* _verify_crc: a string shorter than 10 digits is rejected; otherwise the
\* CRC over received_hex[4:-8] must equal the digits received_hex[-8:-4].
\* (b2a_hex always yields an even number of digits, so the core is whole bytes.)
verify_crc(received_hex) ==
    IF Len(received_hex) < 10 THEN FALSE
    ELSE Slice(received_hex, -8, -4) = calculate_crc(Slice(received_hex, 4, -8))

\* A decoder that takes no notice of the sign bit.
decode_temperature_unsigned(temp_hex) ==
    LET temp_int == HexValue(temp_hex)
    IN  2 * ((temp_int \div 2) % 64) + (temp_int % 2)

\* _decode_temperature of a two-digit hex string, in half degrees:
\* sign(1) | integer part(6) | half-degree flag(1).
decode_temperature(temp_hex) ==
    LET temp_int == HexValue(temp_hex)
        sign == IF temp_int \div 128 = 1 THEN -1 ELSE 1
        integer_part == (temp_int \div 2) % 64
        fraction_part == temp_int % 2
    IN  sign * (2 * integer_part + fraction_part)

\* The byte set_temperature encodes (lines 113-114) for a value of h half
\* degrees: sign, int(abs(t)) in six digits, 1 when t % 1 is not 0.
set_temperature_byte(h) ==
    LET a == IF h < 0 THEN -h ELSE h
    IN  (IF h >= 0 THEN 0 ELSE 128) + 2 * (a \div 2) + (IF a % 2 = 0 THEN 0 ELSE 1)

FRAME_HEADER == << 15, 15, 15, 15 >>
FRAME_END == << 15, 15, 15, 7 >>

DEVICE_ADDRESS == 1          \* app.py constructs the controller with address 1
BROADCAST_ADDRESS == 127     \* "7F"

\* _build_frame / _build_frame_broadcast once the sequence number is known:
\* header, core (length, sequence, address, function, data), CRC, trailer.
frame_of(length_hex, seq, address, function_hex, data_hex) ==
    LET core_part == length_hex \o int_to_hex_str(seq, 1) \o int_to_hex_str(address, 1)
                     \o function_hex \o data_hex
    IN  FRAME_HEADER \o core_part \o calculate_crc(core_part) \o FRAME_END

\* A counter that wraps through zero.
next_frame_num_through_zero(n) == (n + 1) % 256

\* (self.frame_num % 255) + 1
next_frame_num(n) == (n % 255) + 1

\* ------------------------------------------------------- bounds and inputs

MaxThreads == 2      \* Listener threads connect() may start in one behaviour
MaxCalls == 3        \* public method calls the caller makes in one behaviour
MaxRx == 2           \* buffers the channel delivers in one behaviour

Caller == 0
Listeners == 1..MaxThreads
Threads == {Caller} \cup Listeners

Zeros(n) == [i \in 1..n |-> 0]

\* A 44-byte status-upload frame as the appliance sends it: the fields at the
\* offsets of the protocol's frame table, a CRC over bytes 2..39, the trailer.
StatusFrame(deviation, code, sys, comp, set_byte, cur_byte, lock_mask) ==
    LET core_part == << 2, 12, 0, 1, 0, 1, 0, 1 >> \o Zeros(24)
                     \o int_to_hex_str(deviation, 1) \o Zeros(10)
                     \o code
                     \o int_to_hex_str(sys, 1) \o Zeros(2)
                     \o int_to_hex_str(comp, 1)
                     \o int_to_hex_str(set_byte, 1)
                     \o int_to_hex_str(cur_byte, 1) \o Zeros(4)
                     \o int_to_hex_str(lock_mask % 256, 1)
                     \o int_to_hex_str(lock_mask \div 256, 1) \o Zeros(4)
    IN  FRAME_HEADER \o core_part \o calculate_crc(core_part) \o FRAME_END

\* s with its digit at 0-based position i replaced by another digit.
Corrupt(s, i) == [s EXCEPT ![i + 1] = (s[i + 1] + 1) % 16]

CodeA == << 0, 1, 0, 2, 0, 3, 0, 4, 0, 5 >>
CodeB == << 10, 11, 12, 13, 14, 15, 0, 0, 0, 1 >>

\* Set point 4.0 and deviation 2 in both: 7.0 is above the band, 1.0 below.
\* FrameBadCrc has one digit of its CRC changed; FrameShort is three bytes.
FrameHot == StatusFrame(2, CodeA, 2, 2, 8, 14, 33)
FrameCold == StatusFrame(2, CodeB, 1, 0, 8, 2, 2048)
FrameBadCrc == Corrupt(FrameHot, 81)
FrameShort == << 15, 15, 0, 11, 0, 1 >>
FrameAck == LET core_part == << 0, 10, 0, 1, 0, 1, 0, 2, 0, 0, 0, 0, 0, 0, 0, 0 >>
            IN  FRAME_HEADER \o core_part \o calculate_crc(core_part) \o FRAME_END

\* What the channel may deliver to one read of the Listener.
RxBuffers == { FrameHot, FrameCold, FrameBadCrc, FrameShort, FrameAck }

\* Arguments of the caller, on both sides of each domain's edges:
\* temperatures in half degrees (-0.5, 0, 4.5, 63, 63.5) and deviations.
TemperatureInputs == { -1, 0, 9, 126, 127 }
DeviationInputs == { -1, 0, 2, 255, 256 }

\* Index lists for open_locks: in range, out of range, repeated, empty, and
\* lists that mix doors 1..10 with doors 11 and 12.
LockInputs == { << >>, << 1, 6 >>, << 10 >>, << 0, 11, 12 >>, << 2, 2 >>,
                << 11, 12 >>, << 1, 12 >> }

\* Parameter dictionaries: complete ones with a set temperature inside and
\* outside the encodable range, and one without its device_address key.
ParamInputs ==
    { [ complete |-> TRUE, device_code |-> << 15, 15, 15, 15, 15, 15, 15, 15 >>,
        device_address |-> 1, upload_interval |-> 1, compressor_delay |-> 30,
        set_temp |-> 8, temp_deviation |-> 2 ],
      [ complete |-> TRUE, device_code |-> CodeA,
        device_address |-> 1, upload_interval |-> 5, compressor_delay |-> 3,
        set_temp |-> -9, temp_deviation |-> 1 ],
      [ complete |-> TRUE, device_code |-> CodeA,
        device_address |-> 1, upload_interval |-> 1, compressor_delay |-> 30,
        set_temp |-> 128, temp_deviation |-> 2 ],
      [ complete |-> TRUE, device_code |-> CodeA,
        device_address |-> 1, upload_interval |-> 1, compressor_delay |-> 30,
        set_temp |-> -128, temp_deviation |-> 2 ],
      [ complete |-> FALSE, device_code |-> CodeB,
        device_address |-> 1, upload_interval |-> 1, compressor_delay |-> 30,
        set_temp |-> 8, temp_deviation |-> 2 ] }

\* ------------------------------------------------------------------ state

VARIABLES
    is_running,               \* self.is_running
    ser,                      \* self.ser: "None", "open" or "closed" (is_open)
    listener_thread,          \* self.listener_thread: 0 is None, else a thread
    frame_num,                \* self.frame_num
    auto_compressor_enabled,  \* self.auto_compressor_enabled
    state,                    \* self.state
    lock,                     \* self.lock: the set of threads holding it
    on_update_callback,       \* whether a callback was given to __init__
    rxset,                    \* the buffers the channel may deliver
    temps,                    \* the arguments the caller gives set_temperature
    devs,                     \* ... set_temperature_deviation
    paramset,                 \* ... and set_system_parameters
    maxcalls,                 \* the calls the caller makes at most
    pc,                       \* each thread's position
    job,                      \* the frame a thread is building: its arguments
    tmp,                      \* the value a thread computed for frame_num
    buf,                      \* data_hex of the buffer a Listener is handling
    rxn,                      \* buffers delivered so far
    calls,                    \* public calls made so far
    builds,                   \* entries into _build_frame(_broadcast) so far
    tx,                       \* the channel's write side
    manual_won,               \* a manual frame was written, auto not enabled since
    notified,                 \* the callback's invocations
    snap                      \* what the caller's last get_current_state returned

vars == << is_running, ser, listener_thread, frame_num, auto_compressor_enabled,
           state, lock, on_update_callback, rxset, temps, devs, paramset,
           maxcalls, pc,
           job, tmp, buf, rxn, calls, builds, tx, manual_won, notified, snap >>

shared == << is_running, ser, listener_thread, frame_num, auto_compressor_enabled,
             state, lock >>
setup == << on_update_callback, rxset, temps, devs, paramset, maxcalls >>
locals == << pc, job, tmp, buf >>
ghosts == << builds, tx, manual_won, notified, snap >>

NA == << >>       \* the placeholder "N/A": no device code received yet

\* self.state as __init__ leaves it (lines 41-54).
StateDefault ==
    [ connected |-> FALSE, last_update_time |-> 0, device_code |-> NA,
      device_address |-> DEVICE_ADDRESS, post_interval |-> 0,
      compressor_delay |-> 0, set_point_temp |-> 0, temp_deviation |-> 0,
      current_temp |-> 0, compressor_status |-> "OFF",
      system_status |-> "STOPPED", lock_status |-> [i \in 1..12 |-> FALSE] ]

\* A call in progress: the method, its argument, and the frame it builds.
NoJob == [ origin |-> "none", arg |-> 0, length_hex |-> << >>, function_hex |-> << >>,
           data_hex |-> << >>, address |-> 0 ]
\* n frames were written; origin and frame describe the last frame handed to
\* _send_frame.
NoTx == [ n |-> 0, origin |-> "none", frame |-> << >> ]
NoSnap == [ taken |-> FALSE, value |-> StateDefault ]
\* n invocations of the callback, the last with value; failed of them raised.
NoNotify == [ n |-> 0, value |-> StateDefault, failed |-> 0 ]

\* What __init__ sets (lines 25-55), a thread per Listener slot not yet
\* started, and the environment of the behaviour.
Constructed ==
    /\ is_running = FALSE
    /\ ser = "None"
    /\ listener_thread = 0
    /\ frame_num = 0
    /\ auto_compressor_enabled = FALSE
    /\ state = StateDefault
    /\ lock = {}
    /\ pc = [t \in Threads |-> IF t = Caller THEN "idle" ELSE "unstarted"]
    /\ job = [t \in Threads |-> NoJob]
    /\ tmp = [t \in Threads |-> 0]
    /\ buf = [t \in Threads |-> << >>]
    /\ rxn = 0
    /\ calls = 0
    /\ builds = 0
    /\ tx = NoTx
    /\ manual_won = FALSE
    /\ notified = NoNotify
    /\ snap = NoSnap

\* The controller of app.py: constructed with a callback (app.py line 45).
Init ==
    /\ Constructed
    /\ on_update_callback = TRUE
    /\ rxset = RxBuffers
    /\ temps = { -1, 9 }
    /\ devs = { 2, 256 }
    /\ paramset = ParamInputs
    /\ maxcalls = MaxCalls

\* ------------------------------------------------- _parse_frame's decoding

\* A decode that reads the two lock bytes in the order received.
parse_lock_status_unswapped(data_hex) ==
    LET little_endian_hex == Slice(data_hex, 72, 76)
        lock_int == IF Len(little_endian_hex) = 4 THEN HexValue(little_endian_hex) ELSE 0
    IN  [i \in 1..12 |-> (lock_int \div (2 ^ (i - 1))) % 2 = 1]

\* Lines 339-351: the two lock bytes swapped back, bits 0..11 as booleans.
parse_lock_status(data_hex) ==
    LET little_endian_hex == Slice(data_hex, 72, 76)
        big_endian_hex == Slice(little_endian_hex, 2, 4) \o Slice(little_endian_hex, 0, 2)
        lock_int == IF Len(little_endian_hex) = 4 THEN HexValue(big_endian_hex) ELSE 0
    IN  [i \in 1..12 |-> (lock_int \div (2 ^ (i - 1))) % 2 = 1]

\* Lines 357-359.
parse_system_status(data_hex) ==
    LET system_status_hex == Slice(data_hex, 58, 60)
    IN  IF system_status_hex = << 0, 0 >> THEN "STOPPED"
        ELSE IF system_status_hex = << 0, 1 >> THEN "PRE_START"
        ELSE IF system_status_hex = << 0, 2 >> THEN "RUNNING"
        ELSE "UNKNOWN"

\* Lines 362-364.
parse_compressor_status(data_hex) ==
    LET comp_status_hex == Slice(data_hex, 62, 64)
    IN  IF comp_status_hex = << 0, 0 >> THEN "OFF"
        ELSE IF comp_status_hex = << 0, 1 >> THEN "PRE_START"
        ELSE IF comp_status_hex = << 0, 2 >> THEN "ON"
        ELSE IF comp_status_hex = << 0, 3 >> THEN "FAULT"
        ELSE "UNKNOWN"

\* The first assignment under the lock (line 351).
parse_first(st, data_hex) ==
    [st EXCEPT !.lock_status = parse_lock_status(data_hex)]

\* The other assignments under the lock (lines 354-377).  time.time() is
\* abstracted to the ordinal of the update, which grows as the clock does.
parse_rest(st, data_hex) ==
    [st EXCEPT !.device_code = Slice(data_hex, 48, 58),
               !.system_status = parse_system_status(data_hex),
               !.compressor_status = parse_compressor_status(data_hex),
               !.current_temp = decode_temperature(Slice(data_hex, 66, 68)),
               !.set_point_temp = decode_temperature(Slice(data_hex, 64, 66)),
               !.temp_deviation = HexValue(Slice(data_hex, 36, 38)),
               !.last_update_time = st.last_update_time + 1]

\* ---------------------------------------------------- the caller's methods

\* The caller is between two calls and may make another.
Idle == pc[Caller] = "idle" /\ calls < maxcalls

\* Thread t enters _build_frame / _build_frame_broadcast with these arguments.
StartBuild(t, origin, arg, length_hex, function_hex, data_hex, address) ==
    /\ job' = [job EXCEPT ![t] = [ origin |-> origin, arg |-> arg,
                                   length_hex |-> length_hex,
                                   function_hex |-> function_hex,
                                   data_hex |-> data_hex, address |-> address ]]
    /\ pc' = [pc EXCEPT ![t] = "b_read"]
    /\ builds' = builds + 1

\* The caller's method is about to return without having built a frame.
Return(origin, arg) ==
    /\ job' = [job EXCEPT ![Caller] = [NoJob EXCEPT !.origin = origin, !.arg = arg]]
    /\ pc' = [pc EXCEPT ![Caller] = "ret"]

\* The return of such a method.
method_return ==
    /\ pc[Caller] = "ret"
    /\ pc' = [pc EXCEPT ![Caller] = "idle"]
    /\ job' = [job EXCEPT ![Caller] = NoJob]
    /\ UNCHANGED << shared, setup, tmp, buf, rxn, calls, ghosts >>

\* connect(), lines 59-82: nothing when already running; else the port opens
\* and a new Listener starts, or serial.Serial raises.
connect ==
    /\ Idle
    /\ is_running \/ \E t \in Listeners : pc[t] = "unstarted"
    /\ calls' = calls + 1
    /\ IF is_running
       THEN UNCHANGED << shared, locals >>
       ELSE \/ \E t \in Listeners :
                 /\ pc[t] = "unstarted"
                 /\ \A u \in Listeners : u < t => pc[u] # "unstarted"
                 /\ ser' = "open"
                 /\ is_running' = TRUE
                 /\ state' = [state EXCEPT !.connected = TRUE]
                 /\ listener_thread' = t
                 /\ pc' = [pc EXCEPT ![t] = "loop"]
                 /\ UNCHANGED << frame_num, auto_compressor_enabled, lock, job, tmp, buf >>
            \/ /\ state' = [state EXCEPT !.connected = FALSE]
               /\ UNCHANGED << is_running, ser, listener_thread, frame_num,
                               auto_compressor_enabled, lock, locals >>
    /\ UNCHANGED << setup, rxn, ghosts >>

\* disconnect(), lines 84-87: acts only while is_running; clears the flag and
\* waits in join(timeout=1).
disconnect ==
    /\ Idle
    /\ calls' = calls + 1
    /\ IF is_running
       THEN /\ is_running' = FALSE
            /\ job' = [job EXCEPT ![Caller] = [NoJob EXCEPT !.origin = "disconnect"]]
            /\ pc' = [pc EXCEPT ![Caller] = "join"]
       ELSE /\ is_running' = is_running
            /\ Return("disconnect", 0)
    /\ UNCHANGED << ser, listener_thread, frame_num, auto_compressor_enabled,
                    state, lock, tmp, buf, setup, rxn, ghosts >>

\* disconnect(), lines 88-93: join returned, because the Listener ended or
\* because the second elapsed; the port is closed when open.
disconnect_close ==
    /\ pc[Caller] = "join"
    /\ ser' = IF ser = "open" THEN "closed" ELSE ser
    /\ state' = [state EXCEPT !.connected = FALSE]
    /\ Return("disconnect", 0)
    /\ UNCHANGED << is_running, listener_thread, frame_num, auto_compressor_enabled,
                    lock, tmp, buf, setup, rxn, calls, ghosts >>

\* A lock that excludes nobody: what the state dictionary would be without it.
lock_ignored == TRUE

\* `with self.lock` can be entered.
lock_free == lock = {}

\* get_current_state(), lines 95-98: a copy taken under the lock.
get_current_state ==
    /\ Idle
    /\ lock_free
    /\ calls' = calls + 1
    /\ snap' = [ taken |-> TRUE, value |-> state ]
    /\ UNCHANGED << shared, setup, locals, rxn, builds, tx, manual_won, notified >>

\* A check that lets every temperature through.
temperature_any(h) == TRUE

\* Line 109, for a temperature of h half degrees.
temperature_valid(h) == 0 <= h /\ h <= 2 * 63

\* set_temperature(), lines 102-117.
set_temperature ==
    /\ Idle
    /\ calls' = calls + 1
    /\ \E h \in temps :
         IF temperature_valid(h)
         THEN /\ StartBuild(Caller, "set_temperature", h, << 0, 11 >>, << 0, 4 >>,
                            int_to_hex_str(set_temperature_byte(h), 1), DEVICE_ADDRESS)
         ELSE /\ Return("set_temperature", h)
              /\ builds' = builds
    /\ UNCHANGED << shared, setup, tmp, buf, rxn, tx, manual_won, notified, snap >>

\* Line 267.
deviation_valid(d) == 0 <= d /\ d <= 255

\* set_temperature_deviation(), lines 258-279.
set_temperature_deviation ==
    /\ Idle
    /\ calls' = calls + 1
    /\ \E d \in devs :
         IF deviation_valid(d)
         THEN /\ StartBuild(Caller, "set_temperature_deviation", d, << 0, 11 >>,
                            << 0, 6 >>, int_to_hex_str(d, 1), DEVICE_ADDRESS)
         ELSE /\ Return("set_temperature_deviation", d)
              /\ builds' = builds
    /\ UNCHANGED << shared, setup, tmp, buf, rxn, tx, manual_won, notified, snap >>

\* control_compressor_manual(), lines 146-156: the mode is switched off
\* first, then the frame is built and sent.
control_compressor_manual ==
    /\ Idle
    /\ calls' = calls + 1
    /\ auto_compressor_enabled' = FALSE
    /\ \E start \in BOOLEAN :
         StartBuild(Caller, "manual", IF start THEN 1 ELSE 0, << 0, 11 >>, << 0, 2 >>,
                    IF start THEN << 0, 1 >> ELSE << 0, 0 >>, DEVICE_ADDRESS)
    /\ UNCHANGED << is_running, ser, listener_thread, frame_num, state, lock,
                    setup, tmp, buf, rxn, tx, manual_won, notified, snap >>

\* A variant that also sends the compressor a command, as the manual
\* method does.
enable_auto_sending ==
    /\ Idle
    /\ calls' = calls + 1
    /\ \E enable \in BOOLEAN :
         /\ auto_compressor_enabled' = enable
         /\ manual_won' = IF enable THEN FALSE ELSE manual_won
         /\ StartBuild(Caller, "enable_auto", IF enable THEN 1 ELSE 0, << 0, 11 >>,
                       << 0, 2 >>, << 0, 1 >>, DEVICE_ADDRESS)
    /\ UNCHANGED << is_running, ser, listener_thread, frame_num, state, lock,
                    setup, tmp, buf, rxn, tx, notified, snap >>

\* enable_auto_compressor_control(), lines 158-164.
enable_auto_compressor_control ==
    /\ Idle
    /\ calls' = calls + 1
    /\ \E enable \in BOOLEAN :
         /\ auto_compressor_enabled' = enable
         /\ manual_won' = IF enable THEN FALSE ELSE manual_won
         /\ Return("enable_auto", IF enable THEN 1 ELSE 0)
    /\ UNCHANGED << is_running, ser, listener_thread, frame_num, state, lock,
                    setup, tmp, buf, rxn, builds, tx, notified, snap >>

\* A mask with a bit for each of the twelve doors.
control_mask_twelve(lock_indices) ==
    LET bitset(i) == \E k \in 1..Len(lock_indices) : lock_indices[k] - 1 = i
        m[i \in -1..11] == IF i = -1 THEN 0
                           ELSE m[i - 1] + (IF bitset(i) THEN 2 ^ i ELSE 0)
    IN  m[11]

\* The control mask of open_locks (lines 126-130): a bit for each index whose
\* index - 1 lies in 0..9.
control_mask(lock_indices) ==
    LET bitset(i) == \E k \in 1..Len(lock_indices) : lock_indices[k] - 1 = i
        m[i \in -1..9] == IF i = -1 THEN 0
                          ELSE m[i - 1] + (IF bitset(i) THEN 2 ^ i ELSE 0)
    IN  m[9]

\* open_locks(), lines 119-140: the mask's two bytes swapped.
open_locks ==
    /\ Idle
    /\ calls' = calls + 1
    /\ \E lock_indices \in LockInputs :
         LET big_endian_hex == int_to_hex_str(control_mask(lock_indices), 2)
             little_endian_hex == Slice(big_endian_hex, 2, 4) \o Slice(big_endian_hex, 0, 2)
         IN  StartBuild(Caller, "open_locks", lock_indices, << 0, 12 >>,
                        << 0, 3 >>, little_endian_hex, DEVICE_ADDRESS)
    /\ UNCHANGED << shared, setup, tmp, buf, rxn, tx, manual_won, notified, snap >>

\* The number of binary digits of n, at least six as in f'{n:06b}'.
BinLen06(n) == CHOOSE k \in 6..12 : n < 2 ^ k /\ (k = 6 \/ n >= 2 ^ (k - 1))

\* _encode_temperature_byte, lines 283-295, for h half degrees: the binary
\* string sign + integer part + fraction flag read as a number.  Outside
\* (-64, 64) the code warns and goes on.
encode_temperature_byte(h) ==
    LET a == IF h < 0 THEN -h ELSE h
        int_part == a \div 2
        value == (IF h < 0 THEN 2 ^ (BinLen06(int_part) + 1) ELSE 0)
                 + 2 * int_part + (a % 2)
    IN  int_to_hex_str(value, 1)

\* params['device_code'].ljust(10, 'F')[0:10]
ljust10(code) == Slice(code \o [i \in 1..10 |-> 15], 0, 10)

\* The 18-byte payload of set_system_parameters, lines 211-242.
data_payload(params) ==
    ljust10(params.device_code) \o int_to_hex_str(params.device_address, 1)
    \o << 0, 0 >> \o int_to_hex_str(params.upload_interval, 1)
    \o int_to_hex_str(params.compressor_delay, 1) \o << 0, 0, 0, 0 >>
    \o encode_temperature_byte(params.set_temp)
    \o int_to_hex_str(params.temp_deviation, 1)
    \o << 15, 15, 15, 15 >> \o << 15, 15, 15, 15 >> \o << 0, 0 >>

\* set_system_parameters(), lines 189-256: a missing key raises KeyError
\* before anything is built; the frame goes to the broadcast address.
set_system_parameters ==
    /\ Idle
    /\ calls' = calls + 1
    /\ \E params \in paramset :
         IF params.complete
         THEN /\ StartBuild(Caller, "set_system_parameters", params.set_temp,
                            << 1, 12 >>, << 0, 5 >>, data_payload(params),
                            BROADCAST_ADDRESS)
         ELSE /\ Return("set_system_parameters", params.set_temp)
              /\ builds' = builds
    /\ UNCHANGED << shared, setup, tmp, buf, rxn, tx, manual_won, notified, snap >>

\* ------------------------------------------- _build_frame and _send_frame

\* A send whose exception is not caught: in the Listener it reaches the
\* handler of the loop.
after_send_raising(t) == IF t = Caller THEN "idle" ELSE "err"

\* Where thread t goes on when its send returns: the caller's method returns,
\* the Listener is back in _parse_frame, before the callback.
after_send(t) == IF t = Caller THEN "idle" ELSE "cb"

\* Lines 299 and 430, the right-hand side: self.frame_num is read.
build_read(t) ==
    /\ pc[t] = "b_read"
    /\ tmp' = [tmp EXCEPT ![t] = next_frame_num(frame_num)]
    /\ pc' = [pc EXCEPT ![t] = "b_write"]
    /\ UNCHANGED << shared, setup, job, buf, rxn, calls, ghosts >>

\* Lines 299 and 430, the assignment.
build_write(t) ==
    /\ pc[t] = "b_write"
    /\ frame_num' = tmp[t]
    /\ pc' = [pc EXCEPT ![t] = "b_frame"]
    /\ UNCHANGED << is_running, ser, listener_thread, auto_compressor_enabled,
                    state, lock, setup, job, tmp, buf, rxn, calls, ghosts >>

\* The hex string a build hands to _calculate_crc (lines 305 and 433).
core_of(j, seq) ==
    j.length_hex \o int_to_hex_str(seq, 1) \o int_to_hex_str(j.address, 1)
    \o j.function_hex \o j.data_hex

\* Lines 300-307 and 431-435, then _send_frame, lines 437-447.  frame_num is
\* read again for the frame; unhexlify raises on a core of odd length, which
\* set_system_parameters catches; the frame is written when the port is open,
\* unless the write raises.
build_send(t) ==
    /\ pc[t] = "b_frame"
    /\ LET frame_hex == frame_of(job[t].length_hex, frame_num, job[t].address,
                                 job[t].function_hex, job[t].data_hex)
           handed == [ n |-> tx.n, origin |-> job[t].origin, frame |-> frame_hex ]
           done == /\ job' = [job EXCEPT ![t] = NoJob]
                   /\ pc' = [pc EXCEPT ![t] = after_send(t)]
       IN  IF Len(core_of(job[t], frame_num)) % 2 = 1
           THEN done /\ UNCHANGED << tx, manual_won >>
           ELSE IF ser # "open"
           THEN done /\ tx' = handed /\ manual_won' = manual_won
           ELSE \/ /\ done
                   /\ tx' = [handed EXCEPT !.n = tx.n + 1]
                   /\ manual_won' = IF job[t].origin = "manual" THEN TRUE ELSE manual_won
                \/ /\ tx' = handed
                   /\ manual_won' = manual_won
                   /\ job' = job
                   /\ pc' = [pc EXCEPT ![t] = "w_err"]
    /\ tmp' = [tmp EXCEPT ![t] = 0]
    /\ UNCHANGED << shared, setup, buf, rxn, calls, builds, notified, snap >>

\* _send_frame, lines 444-445: the handler of a write that raised.
send_failed(t) ==
    /\ pc[t] = "w_err"
    /\ job' = [job EXCEPT ![t] = NoJob]
    /\ pc' = [pc EXCEPT ![t] = after_send(t)]
    /\ UNCHANGED << shared, setup, tmp, buf, rxn, calls, ghosts >>

\* ------------------------------------------------------------ the Listener

\* _listen_for_data, lines 311-313 and 326: the loop ends when is_running is
\* false; in_waiting raises on a closed port or on an I/O error; data waiting
\* sends the thread to its read.
listen_loop(t) ==
    /\ pc[t] = "loop"
    /\ IF ~is_running
       THEN /\ pc' = [pc EXCEPT ![t] = "dead"]
            /\ rxn' = rxn
       ELSE \/ /\ ser = "open"
               /\ rxn < MaxRx
               /\ rxn' = rxn + 1
               /\ pc' = [pc EXCEPT ![t] = "read"]
            \/ /\ pc' = [pc EXCEPT ![t] = "err"]
               /\ rxn' = rxn
    /\ UNCHANGED << shared, setup, job, tmp, buf, calls, ghosts >>

\* Lines 314-317: after the sleep the waiting bytes are read; the port may
\* have been closed meanwhile.
listen_read(t) ==
    /\ pc[t] = "read"
    /\ IF ser = "open"
       THEN \E b \in rxset :
              /\ buf' = [buf EXCEPT ![t] = b]
              /\ pc' = [pc EXCEPT ![t] = "verify"]
       ELSE /\ pc' = [pc EXCEPT ![t] = "err"]
            /\ buf' = buf
    /\ UNCHANGED << shared, setup, job, tmp, rxn, calls, ghosts >>

\* A handler that also marks the controller as not connected.
listen_error_resetting(t) ==
    /\ pc[t] = "err"
    /\ is_running' = FALSE
    /\ state' = [state EXCEPT !.connected = FALSE]
    /\ pc' = [pc EXCEPT ![t] = "loop"]
    /\ UNCHANGED << ser, listener_thread, frame_num, auto_compressor_enabled,
                    lock, setup, job, tmp, buf, rxn, calls, ghosts >>

\* Lines 324-326: the handler of the loop's try.
listen_error(t) ==
    /\ pc[t] = "err"
    /\ is_running' = FALSE
    /\ pc' = [pc EXCEPT ![t] = "loop"]
    /\ UNCHANGED << ser, listener_thread, frame_num, auto_compressor_enabled,
                    state, lock, setup, job, tmp, buf, rxn, calls, ghosts >>

\* A Listener that decodes every buffer whose CRC matches, whatever its
\* length.
listen_verify_any_length(t) ==
    /\ pc[t] = "verify"
    /\ IF verify_crc(buf[t])
       THEN /\ pc' = [pc EXCEPT ![t] = "w1"]
            /\ buf' = buf
       ELSE /\ pc' = [pc EXCEPT ![t] = "loop"]
            /\ buf' = [buf EXCEPT ![t] = << >>]
    /\ UNCHANGED << shared, setup, job, tmp, rxn, calls, ghosts >>

\* Lines 320-323 and 330-334, 386-393: a buffer that fails the CRC check is
\* dropped; one that passes is decoded when it is 88 digits long, and is
\* otherwise (the 28-digit ACK, any other length) left without effect.
listen_verify(t) ==
    /\ pc[t] = "verify"
    /\ IF verify_crc(buf[t]) /\ Len(buf[t]) = 88
       THEN /\ pc' = [pc EXCEPT ![t] = "w1"]
            /\ buf' = buf
       ELSE /\ pc' = [pc EXCEPT ![t] = "loop"]
            /\ buf' = [buf EXCEPT ![t] = << >>]
    /\ UNCHANGED << shared, setup, job, tmp, rxn, calls, ghosts >>

\* _parse_frame, lines 336-351: the lock is taken and lock_status assigned.
parse_w1(t) ==
    /\ pc[t] = "w1"
    /\ lock_free
    /\ lock' = {t}
    /\ state' = parse_first(state, buf[t])
    /\ pc' = [pc EXCEPT ![t] = "w2"]
    /\ UNCHANGED << is_running, ser, listener_thread, frame_num, auto_compressor_enabled,
                    setup, job, tmp, buf, rxn, calls, ghosts >>

\* A decode that goes on with the lock still held.
parse_w2_keeping_lock(t) ==
    /\ pc[t] = "w2"
    /\ state' = parse_rest(state, buf[t])
    /\ lock' = lock
    /\ pc' = [pc EXCEPT ![t] = "auto_check"]
    /\ UNCHANGED << is_running, ser, listener_thread, frame_num, auto_compressor_enabled,
                    setup, job, tmp, buf, rxn, calls, ghosts >>

\* Lines 354-381: the other fields are assigned and the lock is released.
parse_w2(t) ==
    /\ pc[t] = "w2"
    /\ state' = parse_rest(state, buf[t])
    /\ lock' = lock \ {t}
    /\ pc' = [pc EXCEPT ![t] = "auto_check"]
    /\ UNCHANGED << is_running, ser, listener_thread, frame_num, auto_compressor_enabled,
                    setup, job, tmp, buf, rxn, calls, ghosts >>

\* Lines 383-385: the mode flag is tested, outside the lock.
parse_auto_check(t) ==
    /\ pc[t] = "auto_check"
    /\ pc' = [pc EXCEPT ![t] = IF auto_compressor_enabled THEN "a_read" ELSE "cb"]
    /\ UNCHANGED << shared, setup, job, tmp, buf, rxn, calls, ghosts >>

\* A decision whose band excludes its two edges.
auto_decision_closed(current, set_point, deviation) ==
    LET upper_bound == set_point + 2 * deviation
        lower_bound == set_point - 2 * deviation
    IN  IF current >= upper_bound THEN "on"
        ELSE IF current <= lower_bound THEN "off"
        ELSE "none"

\* The decision of _auto_manage_compressor, lines 407-417, on temperatures in
\* half degrees and a deviation in degrees.
auto_decision(current, set_point, deviation) ==
    LET upper_bound == set_point + 2 * deviation
        lower_bound == set_point - 2 * deviation
    IN  IF current > upper_bound THEN "on"
        ELSE IF current < lower_bound THEN "off"
        ELSE "none"

\* _auto_manage_compressor, lines 400-417: the three values are read under
\* the lock, and a command is built when the temperature left the band.
auto_manage_compressor(t) ==
    /\ pc[t] = "a_read"
    /\ lock_free
    /\ LET decision == auto_decision(state.current_temp, state.set_point_temp,
                                     state.temp_deviation)
       IN  IF decision = "none"
           THEN /\ pc' = [pc EXCEPT ![t] = "cb"]
                /\ UNCHANGED << job, builds >>
           ELSE StartBuild(t, "auto", IF decision = "on" THEN 1 ELSE 0,
                           << 0, 11 >>, << 0, 2 >>,
                           IF decision = "on" THEN << 0, 1 >> ELSE << 0, 0 >>,
                           DEVICE_ADDRESS)
    /\ UNCHANGED << shared, setup, tmp, buf, rxn, calls, tx, manual_won, notified, snap >>

\* Lines 393-396: the callback gets get_current_state(), a copy taken under
\* the lock, and returns or raises.
parse_callback(t) ==
    /\ pc[t] = "cb"
    /\ buf' = [buf EXCEPT ![t] = << >>]
    /\ IF on_update_callback
       THEN /\ lock_free
            /\ notified' = [notified EXCEPT !.n = notified.n + 1, !.value = state]
            /\ \/ pc' = [pc EXCEPT ![t] = "loop"]
               \/ pc' = [pc EXCEPT ![t] = "cb_err"]
       ELSE /\ notified' = notified
            /\ pc' = [pc EXCEPT ![t] = "loop"]
    /\ UNCHANGED << shared, setup, job, tmp, rxn, calls, builds, tx, manual_won, snap >>

\* A callback whose exception is not caught in _parse_frame: it reaches the
\* handler of the loop.
callback_propagates(t) ==
    /\ pc[t] = "cb_err"
    /\ pc' = [pc EXCEPT ![t] = "err"]
    /\ notified' = [notified EXCEPT !.failed = notified.failed + 1]
    /\ UNCHANGED << shared, setup, job, tmp, buf, rxn, calls, builds, tx,
                    manual_won, snap >>

\* Lines 397-398: the handler of a callback that raised.
callback_failed(t) ==
    /\ pc[t] = "cb_err"
    /\ pc' = [pc EXCEPT ![t] = "loop"]
    /\ notified' = [notified EXCEPT !.failed = notified.failed + 1]
    /\ UNCHANGED << shared, setup, job, tmp, buf, rxn, calls, builds, tx,
                    manual_won, snap >>

\* --------------------------------------------------------- specifications

BuildStep(t) == build_read(t) \/ build_write(t) \/ build_send(t) \/ send_failed(t)

ListenerStep(t) ==
    \/ listen_loop(t) \/ listen_read(t) \/ listen_error(t) \/ listen_verify(t)
    \/ parse_w1(t) \/ parse_w2(t) \/ parse_auto_check(t)
    \/ auto_manage_compressor(t) \/ parse_callback(t) \/ callback_failed(t)
    \/ BuildStep(t)

\* The whole program: the caller makes any call, the Listeners run.
Next ==
    \/ connect \/ disconnect \/ disconnect_close \/ get_current_state
    \/ set_temperature \/ set_temperature_deviation
    \/ control_compressor_manual \/ enable_auto_compressor_control
    \/ open_locks \/ set_system_parameters
    \/ method_return
    \/ BuildStep(Caller)
    \/ \E t \in Listeners : ListenerStep(t)

Spec == Init /\ [][Next]_vars

\* ------------------------------------------- manual control and the loop

\* C1: control_compressor_manual clears auto_compressor_enabled before its
\* frame is built, and once a manual frame has been written no frame of the
\* Auto-Control Loop is written until enable_auto_compressor_control(True)
\* is called.  (manual_won is raised by the manual frame's write and lowered
\* by that call.)
C1_ManualWins ==
    [][ /\ (pc[Caller] = "idle" /\ job'[Caller].origin = "manual"
               => ~auto_compressor_enabled')
        /\ (manual_won => ~(tx'.n = tx.n + 1 /\ tx'.origin = "auto")) ]_vars

\* C6: while auto_compressor_enabled is false no frame of the loop is
\* written, and while it is true the flag test that follows a decode leads
\* to one evaluation of the decision.
C6_LoopOnlyWhenEnabled ==
    [][ /\ (~auto_compressor_enabled => ~(tx'.n = tx.n + 1 /\ tx'.origin = "auto"))
        /\ \A t \in Listeners :
             (pc[t] = "auto_check" /\ pc'[t] # "auto_check" /\ auto_compressor_enabled)
                 => pc'[t] = "a_read" ]_vars

\* C9: when disconnect() returns on a controller whose port connect() had
\* opened, the port is closed and the connected flag is false.
C9_DisconnectCloses ==
    (pc[Caller] = "ret" /\ job[Caller].origin = "disconnect" /\ ser # "None")
        => (ser = "closed" /\ ~state.connected)

\* ------------------------------------------------ the controller running

MaxRunCalls == 2     \* calls of the caller while the Listeners run

\* The caller connects, reads snapshots and drives the compressor while the
\* Listeners ingest; the channel delivers valid, corrupt and short buffers.
InitRun ==
    /\ Constructed
    /\ on_update_callback = TRUE
    /\ rxset = RxBuffers
    /\ temps = {}
    /\ devs = {}
    /\ paramset = {}
    /\ maxcalls = MaxRunCalls

NextRun ==
    \/ connect \/ get_current_state
    \/ control_compressor_manual \/ enable_auto_compressor_control
    \/ method_return
    \/ BuildStep(Caller)
    \/ \E t \in Listeners : ListenerStep(t)

SpecRun == InitRun /\ [][NextRun]_vars

\* The telemetry fields of a state dictionary but its time stamp.
Telemetry(st) ==
    << st.lock_status, st.device_code, st.system_status, st.compressor_status,
       st.current_temp, st.set_point_temp, st.temp_deviation >>

\* C2: every snapshot get_current_state returned has its telemetry fields
\* either all at their defaults, with no update time, or all decoded from
\* one and the same frame the channel delivered.
C2_SnapshotAtomic ==
    snap.taken =>
        \/ /\ snap.value.last_update_time = 0
           /\ Telemetry(snap.value) = Telemetry(StateDefault)
        \/ /\ snap.value.last_update_time >= 1
           /\ \E b \in rxset :
                /\ Len(b) = 88
                /\ Telemetry(snap.value)
                     = Telemetry(parse_rest(parse_first(StateDefault, b), b))

\* A snapshot of the first frame, held while a Listener is between the two
\* halves of its write of a second frame with other lock bits.
C2_Witness ==
    /\ snap.taken
    /\ snap.value.last_update_time = 1
    /\ \E t \in Listeners : pc[t] = "w2" /\ state.lock_status # snap.value.lock_status

\* C3: the step that checks a buffer whose CRC does not match (or that is
\* shorter than five bytes) changes no field of the state, invokes no
\* callback, writes nothing, leaves is_running alone and takes the Listener
\* back to the head of its loop.
C3_BadCrcDropped ==
    [][ \A t \in Listeners :
          ( /\ pc[t] = "verify"
            /\ pc'[t] # "verify"
            /\ \/ Len(buf[t]) < 10
               \/ Slice(buf[t], -8, -4) # calculate_crc(Slice(buf[t], 4, -8)) )
          => /\ state' = state
             /\ notified' = notified
             /\ tx' = tx
             /\ is_running' = is_running
             /\ pc'[t] = "loop" ]_vars

\* A Listener about to check a corrupt 44-byte buffer, after a decode.
C3_Witness ==
    \E t \in Listeners :
        pc[t] = "verify" /\ buf[t] = FrameBadCrc /\ state.last_update_time = 1

\* C8: enable_auto_compressor_control(enable) sets auto_compressor_enabled
\* to enable and returns; neither step of it writes a frame, starts a build,
\* or changes frame_num, is_running, the port or any field of the state.
C8_PureFlagFlip ==
    [][ /\ (pc[Caller] = "idle" /\ job'[Caller].origin = "enable_auto")
            => /\ auto_compressor_enabled' = (job'[Caller].arg = 1)
               /\ pc'[Caller] = "ret"
               /\ << tx, builds, frame_num, is_running, ser, state >>'
                    = << tx, builds, frame_num, is_running, ser, state >>
        /\ (pc[Caller] = "ret" /\ pc'[Caller] # "ret" /\ job[Caller].origin = "enable_auto")
            => /\ pc'[Caller] = "idle"
               /\ << auto_compressor_enabled, tx, builds, frame_num, is_running, ser, state >>'
                    = << auto_compressor_enabled, tx, builds, frame_num, is_running, ser, state >>
      ]_vars

\* enable_auto_compressor_control(True) returning on a connected controller
\* that has decoded a frame.
C8_Witness ==
    /\ pc[Caller] = "ret"
    /\ job[Caller].origin = "enable_auto"
    /\ job[Caller].arg = 1
    /\ auto_compressor_enabled
    /\ state.last_update_time >= 1

\* C10: a write that raises, in a command of the caller or of the loop, is
\* caught in _send_frame: is_running, the connected flag and the port stay
\* as they are, the command returns normally (the caller's method returns,
\* the Listener goes on to its callback and loop) and no other thread moves.
C10_WriteFailureContained ==
    [][ \A t \in Threads :
          (pc'[t] # pc[t] /\ (pc[t] = "w_err" \/ pc'[t] = "w_err"))
          => /\ is_running' = is_running
             /\ state'.connected = state.connected
             /\ ser' = ser
             /\ pc[t] = "w_err" => pc'[t] = (IF t = Caller THEN "idle" ELSE "cb")
             /\ \A u \in Threads \ {t} : pc'[u] = pc[u] ]_vars

\* The write of a frame of the loop has raised on a running controller.
C10_Witness ==
    \E t \in Listeners :
        /\ pc[t] = "w_err"
        /\ job[t].origin = "auto"
        /\ is_running
        /\ state.connected

\* ------------------------------------------------------ sequence numbers

MaxSeqCalls == 257   \* commands in a row: once around the counter and on

\* A fresh controller on which one thread issues commands of every kind,
\* unicast and broadcast, one after the other, each with arguments that
\* yield a frame (parameters with an 18-byte payload).  The port is not
\* open: frames are built and handed to _send_frame, none is written.
InitSeq ==
    /\ Constructed
    /\ on_update_callback = TRUE
    /\ rxset = {}
    /\ temps = { 0, 9 }
    /\ devs = { 255 }
    /\ paramset = { p \in ParamInputs : p.complete /\ Len(data_payload(p)) = 36 }
    /\ maxcalls = MaxSeqCalls

NextSeq ==
    \/ set_temperature \/ set_temperature_deviation
    \/ open_locks \/ set_system_parameters
    \/ build_read(Caller) \/ build_write(Caller) \/ build_send(Caller)

SpecSeq == InitSeq /\ [][NextSeq]_vars

\* C4: on a fresh controller used by one thread, the n-th build, unicast or
\* broadcast, uses sequence ((n-1) mod 255)+1, never 0, and the frame it
\* hands to the channel carries that number in its sequence byte.
C4_SequenceCyclic ==
    [][ (pc[Caller] = "b_frame" /\ pc'[Caller] # "b_frame")
        => /\ frame_num = ((builds - 1) % 255) + 1
           /\ frame_num # 0
           /\ tx' # tx => Slice(tx'.frame, 6, 8)
                            = int_to_hex_str(((builds - 1) % 255) + 1, 1) ]_vars

\* The 256th build was a broadcast frame and carries sequence 1 again.
C4_Witness ==
    /\ builds = 256
    /\ pc[Caller] = "idle"
    /\ tx.origin = "set_system_parameters"
    /\ Slice(tx.frame, 6, 10) = << 0, 1, 7, 15 >>

\* --------------------------------------------------------- the hysteresis

MaxAutoCalls == 2    \* connect and the switch of the mode

\* (deviation, set point byte, current byte) of the status frames offered to
\* the loop: around a band of 4.0 +- 2, around one of -10.0 +- 3, a band of
\* width zero at 0 with both zeros of the encoding, and the widest band.
AutoTriples ==
    { << 2, 8, 14 >>, << 2, 8, 13 >>, << 2, 8, 12 >>, << 2, 8, 8 >>,
      << 2, 8, 4 >>, << 2, 8, 3 >>, << 2, 8, 2 >>, << 2, 8, 129 >>,
      << 3, 148, 141 >>, << 3, 148, 142 >>, << 3, 148, 154 >>, << 3, 148, 155 >>,
      << 0, 0, 1 >>, << 0, 0, 0 >>, << 0, 128, 129 >>, << 0, 0, 128 >>,
      << 255, 127, 255 >>, << 255, 255, 127 >> }

AutoFrames == { StatusFrame(x[1], CodeA, 2, 1, x[2], x[3], 0) : x \in AutoTriples }

\* The controller is connected and the mode switched while the appliance
\* reports one of these readings.
InitAuto ==
    /\ Constructed
    /\ on_update_callback = TRUE
    /\ \E f \in AutoFrames : rxset = { f }
    /\ temps = {}
    /\ devs = {}
    /\ paramset = {}
    /\ maxcalls = MaxAutoCalls

NextAuto ==
    \/ connect \/ enable_auto_compressor_control \/ method_return
    \/ \E t \in Listeners : ListenerStep(t)

SpecAuto == InitAuto /\ [][NextAuto]_vars

\* C5: an evaluation of the loop on (current, set point, deviation) starts
\* a compressor-On command iff current > set point + deviation, a
\* compressor-Off command iff current < set point - deviation, and none
\* inside the band; the one frame of that command carries function 02 and
\* the decided action, and is written when the port is open and the write
\* does not raise.
C5_Hysteresis ==
    [][ \A t \in Listeners :
          /\ (pc[t] = "a_read" /\ pc'[t] # "a_read")
             => LET current == state.current_temp
                    upper == state.set_point_temp + 2 * state.temp_deviation
                    lower == state.set_point_temp - 2 * state.temp_deviation
                    starts(action) == /\ pc'[t] = "b_read"
                                      /\ job'[t].origin = "auto"
                                      /\ job'[t].function_hex = << 0, 2 >>
                                      /\ job'[t].data_hex = action
                IN  /\ current > upper <=> starts(<< 0, 1 >>)
                    /\ current < lower <=> starts(<< 0, 0 >>)
                    /\ (lower <= current /\ current <= upper)
                         <=> (pc'[t] = "cb" /\ builds' = builds)
          /\ (pc[t] = "b_frame" /\ pc'[t] # "b_frame" /\ job[t].origin = "auto")
             => /\ Slice(tx'.frame, 10, 14) = << 0, 2 >> \o job[t].data_hex
                /\ tx'.n = tx.n + (IF ser = "open" /\ pc'[t] = "cb" THEN 1 ELSE 0) ]_vars

\* A compressor-Off frame written for a reading of -13.5 under a band of
\* -10.0 +- 3.
C5_Witness ==
    /\ tx.n = 1
    /\ tx.origin = "auto"
    /\ Slice(tx.frame, 10, 14) = << 0, 2, 0, 0 >>
    /\ state.current_temp = -27
    /\ state.set_point_temp = -20
    /\ state.temp_deviation = 3

\* ------------------------------------------------- the commands' domains

MaxCmdCalls == 3     \* calls of the caller: connect or disconnect, commands

\* The caller alone: it sets temperatures and deviations on both sides of
\* the domains' edges, before connect(), while connected and after
\* disconnect().
InitCmd ==
    /\ Constructed
    /\ on_update_callback = TRUE
    /\ rxset = {}
    /\ temps = TemperatureInputs
    /\ devs = DeviationInputs
    /\ paramset = {}
    /\ maxcalls = MaxCmdCalls

NextCmd ==
    \/ connect \/ disconnect \/ disconnect_close
    \/ set_temperature \/ set_temperature_deviation
    \/ method_return
    \/ BuildStep(Caller)

SpecCmd == InitCmd /\ [][NextCmd]_vars

\* C7, as the claim states it: set_temperature(v) with v < 0 or v > 63 and
\* set_temperature_deviation(d) with d < 0 or d > 255 write nothing and
\* leave the sequence counter and the state unchanged, and for a value
\* inside the domain exactly one frame is written.
C7_AsClaimed ==
    [][ LET cmds == { "set_temperature", "set_temperature_deviation" }
            inside(j) == IF j.origin = "set_temperature"
                         THEN 0 <= j.arg /\ j.arg <= 2 * 63
                         ELSE 0 <= j.arg /\ j.arg <= 255
        IN  /\ (pc[Caller] = "idle" /\ job'[Caller].origin \in cmds)
               => IF inside(job'[Caller])
                  THEN pc'[Caller] = "b_read" /\ builds' = builds + 1
                  ELSE /\ pc'[Caller] = "ret"
                       /\ << tx, builds, frame_num, state >>' = << tx, builds, frame_num, state >>
            /\ (pc[Caller] = "ret" /\ pc'[Caller] # "ret" /\ job[Caller].origin \in cmds)
               => << tx, builds, frame_num, state >>' = << tx, builds, frame_num, state >>
            /\ (pc[Caller] = "b_frame" /\ pc'[Caller] # "b_frame" /\ job[Caller].origin \in cmds)
               => tx'.n = tx.n + 1 ]_vars

\* C7, as the code has it: outside the domain as above; for a value inside
\* the domain exactly one frame is built, with the next sequence number, and
\* it is written when the port is open and the write does not raise, and
\* not written otherwise.
C7_Domains ==
    [][ LET cmds == { "set_temperature", "set_temperature_deviation" }
            inside(j) == IF j.origin = "set_temperature"
                         THEN 0 <= j.arg /\ j.arg <= 2 * 63
                         ELSE 0 <= j.arg /\ j.arg <= 255
        IN  /\ (pc[Caller] = "idle" /\ job'[Caller].origin \in cmds)
               => IF inside(job'[Caller])
                  THEN pc'[Caller] = "b_read" /\ builds' = builds + 1
                  ELSE /\ pc'[Caller] = "ret"
                       /\ << tx, builds, frame_num, state >>' = << tx, builds, frame_num, state >>
            /\ (pc[Caller] = "ret" /\ pc'[Caller] # "ret" /\ job[Caller].origin \in cmds)
               => << tx, builds, frame_num, state >>' = << tx, builds, frame_num, state >>
            /\ (pc[Caller] = "b_frame" /\ pc'[Caller] # "b_frame" /\ job[Caller].origin \in cmds)
               => /\ tx'.frame = frame_of(job[Caller].length_hex, frame_num, DEVICE_ADDRESS,
                                          job[Caller].function_hex, job[Caller].data_hex)
                  /\ builds' = builds
                  /\ tx'.n = tx.n + (IF ser = "open" /\ pc'[Caller] = "idle" THEN 1 ELSE 0)
      ]_vars

\* set_temperature(63.5) is turned away on a connected controller that has
\* just written the frame of an accepted command.
C7_Witness ==
    /\ pc[Caller] = "ret"
    /\ job[Caller].origin = "set_temperature"
    /\ job[Caller].arg = 127
    /\ ser = "open"
    /\ tx.n = 1

\* ------------------------------------------------------- the notification

\* C11: a callback that raises does not stop the Listener: the invocation
\* that fails and its handler leave is_running and the state the frame wrote
\* as they are and take the Listener back to the head of its loop; and once
\* a callback has failed, a valid 44-byte buffer is still decoded and the
\* callback is invoked again, with a copy of the state.
C11_CallbackFailureContained ==
    [][ \A t \in Listeners :
          /\ (pc'[t] # pc[t] /\ (pc[t] = "cb_err" \/ pc'[t] = "cb_err"))
             => /\ is_running' = is_running
                /\ state' = state
                /\ pc[t] = "cb_err" => pc'[t] = "loop"
          /\ notified.failed > 0
             => /\ (pc[t] = "verify" /\ pc'[t] # "verify"
                       /\ verify_crc(buf[t]) /\ Len(buf[t]) = 88)
                   => pc'[t] = "w1"
                /\ (pc[t] = "cb" /\ pc'[t] # "cb")
                   => /\ notified'.n = notified.n + 1
                      /\ notified'.value = state ]_vars

\* The one invocation so far has raised; the Listener is still running and
\* has decoded a second frame, whose callback is due.
C11_Witness ==
    \E t \in Listeners :
        /\ pc[t] = "cb"
        /\ notified.n = 1
        /\ notified.failed = 1
        /\ state.last_update_time = 2
        /\ is_running

\* What _parse_frame decodes from a status frame, but for the time stamp.
Decoded(data_hex) == Telemetry(parse_rest(parse_first(StateDefault, data_hex), data_hex))

\* C12: the callback is invoked once for each decoded status frame: only by
\* a Listener at the end of _parse_frame for a CRC-valid 44-byte buffer,
\* after the fields were assigned and after the flag test, the decision and
\* the send of a command of the loop; the snapshot it gets has the telemetry
\* fields decoded from that frame; after it the Listener is done with the
\* frame.  No ACK, no buffer of another length and no method of the caller
\* invokes it.
C12_NotifiedOncePerFrame ==
    [][ /\ \A t \in Listeners :
             /\ (pc[t] = "cb" /\ pc'[t] # "cb")
                => /\ notified'.n = notified.n + 1
                   /\ Telemetry(notified'.value) = Decoded(buf[t])
                   /\ pc'[t] \in { "loop", "cb_err" }
                   /\ buf'[t] = << >>
             /\ (pc'[t] = "cb" /\ pc[t] # "cb")
                => /\ pc[t] \in { "auto_check", "a_read", "b_frame", "w_err" }
                   /\ Len(buf[t]) = 88
                   /\ verify_crc(buf[t])
             /\ (pc'[t] = "loop" /\ pc[t] \in { "w1", "w2", "auto_check", "a_read",
                                               "b_read", "b_write", "b_frame", "w_err" })
                => FALSE
        /\ notified'.n # notified.n
           => \E t \in Listeners : pc[t] = "cb" /\ pc'[t] # "cb" /\ Len(buf[t]) = 88 ]_vars

\* ---------------------------------------------------------- the life cycle

MaxLifeCalls == 3    \* connect() and disconnect() calls in one behaviour

\* The caller connects and disconnects, in any order, while the appliance
\* reports its status; the automatic mode stays off.
InitLife ==
    /\ Constructed
    /\ on_update_callback = TRUE
    /\ rxset = { FrameHot }
    /\ temps = {}
    /\ devs = {}
    /\ paramset = {}
    /\ maxcalls = MaxLifeCalls

NextLife ==
    \/ connect \/ disconnect \/ disconnect_close \/ method_return
    \/ \E t \in Listeners :
         \/ listen_loop(t) \/ listen_read(t) \/ listen_error(t) \/ listen_verify(t)
         \/ parse_w1(t) \/ parse_w2(t) \/ parse_auto_check(t)
         \/ parse_callback(t) \/ callback_failed(t)

SpecLife == InitLife /\ [][NextLife]_vars

\* C13: no step of a Listener changes the connected flag, so a Listener
\* that stops on a read error leaves it as connect() set it; the flag
\* changes only in a step of connect() (the call itself) or of disconnect()
\* (after its join).
C13_ConnectedStale ==
    [][ /\ \A t \in Listeners :
             (pc'[t] # pc[t] /\ pc[t] # "unstarted")
                => state'.connected = state.connected
        /\ state'.connected # state.connected
             => \/ pc[Caller] = "idle" /\ calls' = calls + 1 /\ pc'[Caller] = "idle"
                \/ pc[Caller] = "join" /\ job[Caller].origin = "disconnect" ]_vars

\* The Listener has ended on a read error and the caller has made no call
\* since connect(): the port is open, is_running is false, connected true.
C13_Witness ==
    /\ pc[1] = "dead"
    /\ pc[Caller] = "idle"
    /\ calls = 1
    /\ ~is_running
    /\ ser = "open"
    /\ state.connected
    /\ state.last_update_time = 1

\* ------------------------------------------------------------- the doors

MaxLockCalls == 3    \* connect() and open_locks calls in one behaviour

\* The caller connects, or not, and opens doors.
InitLocks ==
    /\ Constructed
    /\ on_update_callback = TRUE
    /\ rxset = {}
    /\ temps = {}
    /\ devs = {}
    /\ paramset = {}
    /\ maxcalls = MaxLockCalls

NextLocks == connect \/ open_locks \/ BuildStep(Caller)

SpecLocks == InitLocks /\ [][NextLocks]_vars

EncodableHalfDegrees == 127   \* 63.5 C, the largest magnitude inside (-64, 64)

MaxTempCalls == 1    \* calls of the caller in one behaviour

\* Parameter dictionaries with every set temperature from -63.5 to 63.5.
TemperatureParams ==
    { [ complete |-> TRUE, device_code |-> CodeA, device_address |-> 1,
        upload_interval |-> 1, compressor_delay |-> 30, set_temp |-> h,
        temp_deviation |-> 2 ] : h \in -EncodableHalfDegrees..EncodableHalfDegrees }

\* The caller sets one temperature, through set_system_parameters or through
\* set_temperature, on a controller it has not connected.
InitTemp ==
    /\ Constructed
    /\ on_update_callback = TRUE
    /\ rxset = {}
    /\ temps = 0..EncodableHalfDegrees
    /\ devs = {}
    /\ paramset = TemperatureParams
    /\ maxcalls = MaxTempCalls

NextTemp ==
    \/ set_temperature \/ set_system_parameters \/ method_return
    \/ build_read(Caller) \/ build_write(Caller) \/ build_send(Caller)

SpecTemp == InitTemp /\ [][NextTemp]_vars

\* C15: for every v of -63.5, -63.0, ..., 63.5 the byte that
\* _encode_temperature_byte puts into the payload of set_system_parameters
\* has the sign in bit 7, the integer part of |v| in bits 1-6 and the half
\* degree in bit 0, and _decode_temperature of it is v; the same holds for
\* the byte set_temperature encodes for the values it accepts; and the frame
\* built carries that byte.
C15_TemperatureRoundTrip ==
    [][ LET a(v) == IF v < 0 THEN -v ELSE v
            layout(v) == (IF v < 0 THEN 128 ELSE 0) + 2 * (a(v) \div 2) + (a(v) % 2)
        IN  /\ (pc[Caller] = "idle" /\ pc'[Caller] = "b_read"
                  /\ job'[Caller].origin = "set_system_parameters")
               => LET v == job'[Caller].arg
                      temp_hex == Slice(job'[Caller].data_hex, 22, 24)
                  IN  /\ Len(job'[Caller].data_hex) = 36
                      /\ HexValue(temp_hex) = layout(v)
                      /\ decode_temperature(temp_hex) = v
            /\ (pc[Caller] = "idle" /\ pc'[Caller] = "b_read"
                  /\ job'[Caller].origin = "set_temperature")
               => LET v == job'[Caller].arg
                      temp_hex == job'[Caller].data_hex
                  IN  /\ Len(temp_hex) = 2
                      /\ HexValue(temp_hex) = layout(v)
                      /\ decode_temperature(temp_hex) = v
            /\ (pc[Caller] = "b_frame" /\ pc'[Caller] # "b_frame")
               => /\ tx' # tx
                  /\ decode_temperature(
                        IF job[Caller].origin = "set_temperature"
                        THEN Slice(tx'.frame, 12, 14)
                        ELSE Slice(tx'.frame, 34, 36)) = job[Caller].arg ]_vars

\* The frame built for a set temperature of -63.5: its byte is ff.
C15_Witness ==
    /\ tx.origin = "set_system_parameters"
    /\ Slice(tx.frame, 34, 36) = << 15, 15 >>
    /\ decode_temperature(Slice(tx.frame, 34, 36)) = -EncodableHalfDegrees
    /\ pc[Caller] = "idle"

\* ---------------------------------------------------------------- the CRC

MaxCrcCalls == 1     \* commands of the caller in one behaviour

\* Values the sequence counter has when a command starts: fresh, before a
\* one-digit and a two-digit number, before ff, and before the wrap.
CounterStarts == { 0, 14, 127, 254, 255 }

\* A controller that has built some frames already and is not connected:
\* the caller issues a command of any kind, with arguments that yield a
\* frame.
InitCrc ==
    /\ frame_num \in CounterStarts
    /\ is_running = FALSE
    /\ ser = "None"
    /\ listener_thread = 0
    /\ auto_compressor_enabled = FALSE
    /\ state = StateDefault
    /\ lock = {}
    /\ pc = [t \in Threads |-> IF t = Caller THEN "idle" ELSE "unstarted"]
    /\ job = [t \in Threads |-> NoJob]
    /\ tmp = [t \in Threads |-> 0]
    /\ buf = [t \in Threads |-> << >>]
    /\ rxn = 0
    /\ calls = 0
    /\ builds = 0
    /\ tx = NoTx
    /\ manual_won = FALSE
    /\ notified = NoNotify
    /\ snap = NoSnap
    /\ on_update_callback = TRUE
    /\ rxset = {}
    /\ temps = { 0, 9 }
    /\ devs = { 255 }
    /\ paramset = { p \in ParamInputs : p.complete /\ Len(data_payload(p)) = 36 }
    /\ maxcalls = MaxCrcCalls

NextCrc ==
    \/ set_temperature \/ set_temperature_deviation \/ control_compressor_manual
    \/ open_locks \/ set_system_parameters
    \/ build_read(Caller) \/ build_write(Caller) \/ build_send(Caller)

SpecCrc == InitCrc /\ [][NextCrc]_vars

\* s with bit k of its digit at 1-based position i inverted.
FlipDigitBit(s, i, k) == [s EXCEPT ![i] = FlipBit(s[i], 2 ^ k)]

\* C16: the frame a build produces has, between header and CRC, the length,
\* sequence, address, function and payload it was given; its CRC field is
\* the CRC-16/XMODEM of those bytes (the function whose value on "123456789"
\* is 0x31c3), low byte first; _verify_crc accepts the frame; and
\* _verify_crc rejects the frame with any one bit of those bytes inverted.
C16_CrcRoundTrip ==
    [][ (pc[Caller] = "b_frame" /\ pc'[Caller] # "b_frame")
        => LET frame_hex == tx'.frame
               core_part == Slice(frame_hex, 4, -8)
               crc == crc16_func(unhexlify(core_part))
           IN  /\ tx' # tx
               /\ core_part = job[Caller].length_hex \o int_to_hex_str(frame_num, 1)
                                \o int_to_hex_str(job[Caller].address, 1)
                                \o job[Caller].function_hex \o job[Caller].data_hex
               /\ crc16_func(<< 49, 50, 51, 52, 53, 54, 55, 56, 57 >>) = 12739
               /\ Slice(frame_hex, -8, -4)
                    = HexDigits(crc % 256, 2) \o HexDigits(crc \div 256, 2)
               /\ verify_crc(frame_hex)
               /\ \A i \in 5..(Len(frame_hex) - 8) : \A k \in 0..3 :
                    ~verify_crc(FlipDigitBit(frame_hex, i, k)) ]_vars

\* The broadcast frame with sequence ff, 28 bytes long, was built and passes
\* the check.
C16_Witness ==
    /\ tx.origin = "set_system_parameters"
    /\ Slice(tx.frame, 4, 10) = << 1, 12, 15, 15, 7, 15 >>
    /\ Len(tx.frame) = 56
    /\ verify_crc(tx.frame)
    /\ pc[Caller] = "idle"

\* ------------------------------------------- temperatures out of range

\* C17: set_system_parameters with a set temperature of magnitude 64 or
\* more writes no frame to the channel.
C17_EncodingFails ==
    [][ ( /\ pc[Caller] = "b_frame"
          /\ pc'[Caller] # "b_frame"
          /\ job[Caller].origin = "set_system_parameters"
          /\ \/ job[Caller].arg >= EncodableHalfDegrees + 1
             \/ job[Caller].arg <= -(EncodableHalfDegrees + 1) )
        => tx'.n = tx.n ]_vars

\* ------------------------------------------------- the end of a Listener

\* C18: the handler of a read error clears is_running and the Listener then
\* ends: it makes no other step (no read, no assignment to the state, no
\* callback, no write), a thread that has ended stays so, and a Listener is
\* started by connect() alone.  (Where the caller never disconnects,
\* is_running is cleared by that handler only, so a started thread that is
\* no longer self.listener_thread has been through it.)
C18_TerminationFinal ==
    [][ \A t \in Listeners :
          /\ (pc[t] = "err" /\ pc'[t] # "err") => (~is_running' /\ pc'[t] = "loop")
          /\ (t # listener_thread /\ pc[t] # "unstarted" /\ pc'[t] # pc[t])
             => (pc[t] = "loop" /\ pc'[t] = "dead")
          /\ pc[t] = "dead" => pc'[t] = "dead"
          /\ (pc[t] = "unstarted" /\ pc'[t] # "unstarted")
             => (pc[Caller] = "idle" /\ calls' = calls + 1 /\ listener_thread' = t)
      ]_vars

\* ---------------------------------------------------------------- the lock

\* C19: a thread holds the lock only between the two halves of
\* _parse_frame's assignments; no thread holds it while it queries or reads
\* the channel, builds or writes a frame, handles a failed write, or is in
\* or about to enter the callback; and at most one thread holds it.
C19_LockNotAcrossIO ==
    /\ Cardinality(lock) <= 1
    /\ \A t \in Threads :
         /\ t \in lock => pc[t] = "w2"
         /\ pc[t] \in { "loop", "read", "err", "b_read", "b_write", "b_frame",
                        "w_err", "cb", "cb_err" }
            => t \notin lock

\* A Listener has written a frame of the loop and is inside a callback that
\* raised; nobody holds the lock.
C19_Witness ==
    \E t \in Listeners :
        /\ pc[t] = "cb_err"
        /\ tx.n = 1
        /\ tx.origin = "auto"
        /\ notified.n = 1
        /\ lock = {}

\* ------------------------------------------------- buffers of other lengths

MaxLenCalls == 2     \* connect and the switch of the mode

\* Buffers with a matching CRC that are not 44 bytes long: six bytes with an
\* empty core, and a status frame with one byte more.
FrameEmpty == FRAME_HEADER \o calculate_crc(<< >>) \o FRAME_END
FrameLong == LET core_part == Slice(FrameHot, 4, -8) \o << 0, 0 >>
             IN  FRAME_HEADER \o core_part \o calculate_crc(core_part) \o FRAME_END

\* The appliance sends a status frame above the band, ACK frames and frames
\* of other lengths, to a controller whose caller connects and switches the
\* automatic mode.
InitLen ==
    /\ Constructed
    /\ on_update_callback = TRUE
    /\ rxset = { FrameHot, FrameAck, FrameEmpty, FrameLong }
    /\ temps = {}
    /\ devs = {}
    /\ paramset = {}
    /\ maxcalls = MaxLenCalls

NextLen ==
    \/ connect \/ enable_auto_compressor_control \/ method_return
    \/ \E t \in Listeners : ListenerStep(t)

SpecLen == InitLen /\ [][NextLen]_vars

\* C20: the step that handles a buffer whose CRC matches and whose length
\* is not 88 hex digits (the 14-byte ACK, any other length) changes no field
\* of the state, starts no evaluation of the loop and no build, writes
\* nothing, invokes no callback and takes the Listener back to the head of
\* its loop.
C20_OtherLengthsIgnored ==
    [][ \A t \in Listeners :
          ( /\ pc[t] = "verify"
            /\ pc'[t] # "verify"
            /\ Len(buf[t]) >= 10
            /\ Slice(buf[t], -8, -4) = calculate_crc(Slice(buf[t], 4, -8))
            /\ Len(buf[t]) # 2 * 44 )
          => /\ state' = state
             /\ notified' = notified
             /\ tx' = tx
             /\ builds' = builds
             /\ frame_num' = frame_num
             /\ is_running' = is_running
             /\ pc'[t] = "loop" ]_vars

\* In automatic mode, with a reading above the band in the state, a
\* Listener is about to handle the 45-byte buffer.
C20_Witness ==
    \E t \in Listeners :
        /\ pc[t] = "verify"
        /\ buf[t] = FrameLong
        /\ Len(FrameAck) = 28
        /\ verify_crc(FrameAck) /\ verify_crc(FrameLong) /\ verify_crc(FrameEmpty)
        /\ auto_compressor_enabled
        /\ state.last_update_time = 1
        /\ state.current_temp > state.set_point_temp + 2 * state.temp_deviation

\* ------------------------------------------------- the fields of a frame

MaxDecodeCalls == 2  \* connect and a snapshot

\* (deviation, device code, system status, compressor status, set point
\* byte, current byte, lock mask) of the status frames offered: every status
\* code and codes without a name, temperatures of both signs with and
\* without the half degree, lock masks whose two bytes differ and one with
\* bits above the twelfth.
DecodeFields ==
    { << 2, CodeA, 2, 2, 8, 11, 33 >>,
      << 0, CodeB, 0, 0, 0, 0, 0 >>,
      << 255, CodeA, 1, 1, 127, 255, 4095 >>,
      << 1, CodeB, 3, 3, 137, 128, 256 >>,
      << 16, CodeA, 255, 4, 20, 148, 61441 >>,
      << 3, CodeB, 16, 255, 129, 1, 2048 >> }

DecodeFrames ==
    { StatusFrame(x[1], x[2], x[3], x[4], x[5], x[6], x[7]) : x \in DecodeFields }

\* The appliance reports one of these; the caller connects and asks for the
\* state.
InitDecode ==
    /\ Constructed
    /\ on_update_callback = TRUE
    /\ \E f \in DecodeFrames : rxset = { f }
    /\ temps = {}
    /\ devs = {}
    /\ paramset = {}
    /\ maxcalls = MaxDecodeCalls

NextDecode ==
    \/ connect \/ get_current_state
    \/ \E t \in Listeners :
         \/ listen_loop(t) \/ listen_read(t) \/ listen_error(t) \/ listen_verify(t)
         \/ parse_w1(t) \/ parse_w2(t) \/ parse_auto_check(t)
         \/ parse_callback(t) \/ callback_failed(t)

SpecDecode == InitDecode /\ [][NextDecode]_vars

\* C21: when a Listener has assigned the fields of a CRC-valid 44-byte
\* frame, the state holds, with byte k the k-th byte of the frame from 0:
\* lock_status[i] = bit i, for i in 0..11, of 256 * byte 37 + byte 36;
\* system_status from byte 29 (0 STOPPED, 1 PRE_START, 2 RUNNING, else
\* UNKNOWN); compressor_status from byte 31 (0 OFF, 1 PRE_START, 2 ON,
\* 3 FAULT, else UNKNOWN); set_point_temp from byte 32 and current_temp from
\* byte 33 (sign in bit 7, half degrees in bits 0-6); temp_deviation =
\* byte 18; device_code = bytes 24-28; and get_current_state returns a copy
\* of that state.
C21_FieldsAtOffsets ==
    [][ /\ \A t \in Listeners :
             (pc[t] = "w2" /\ pc'[t] # "w2")
             => LET byte(k) == unhexlify(buf[t])[k + 1]
                    lock_int == 256 * byte(37) + byte(36)
                    temperature(b) == (IF b >= 128 THEN -1 ELSE 1) * (b % 128)
                    sys == byte(29)
                    comp == byte(31)
                IN  /\ Len(buf[t]) = 2 * 44
                    /\ \A i \in 0..11 :
                         state'.lock_status[i + 1] = ((lock_int \div (2 ^ i)) % 2 = 1)
                    /\ state'.system_status
                         = (CASE sys = 0 -> "STOPPED" [] sys = 1 -> "PRE_START"
                              [] sys = 2 -> "RUNNING" [] OTHER -> "UNKNOWN")
                    /\ state'.compressor_status
                         = (CASE comp = 0 -> "OFF" [] comp = 1 -> "PRE_START"
                              [] comp = 2 -> "ON" [] comp = 3 -> "FAULT"
                              [] OTHER -> "UNKNOWN")
                    /\ state'.set_point_temp = temperature(byte(32))
                    /\ state'.current_temp = temperature(byte(33))
                    /\ state'.temp_deviation = byte(18)
                    /\ unhexlify(state'.device_code)
                         = << byte(24), byte(25), byte(26), byte(27), byte(28) >>
                    /\ Len(state'.device_code) = 10
        /\ snap' # snap => (snap'.taken /\ snap'.value = state) ]_vars

\* get_current_state has returned, after the frame with compressor On,
\* 5.5 C and locks 1 and 6: ON, 5.5 and those two lock bits alone.
C21_Witness ==
    /\ snap.taken
    /\ snap.value.last_update_time = 1
    /\ snap.value.compressor_status = "ON"
    /\ snap.value.current_temp = 11
    /\ snap.value.lock_status
         = [i \in 1..12 |-> i \in { 1, 6 }]
    /\ snap.value.device_code = CodeA

\* --------------------------------------------------------- one Listener

\* C22: at most one Listener thread is alive (started and not ended) at any
\* time, whatever connect() and disconnect() calls the caller makes.
C22_OneListener ==
    Cardinality({ t \in Listeners : pc[t] \notin { "unstarted", "dead" } }) <= 1

\* ------------------------------------------------- the counter, two threads

MaxRaceCalls == 3    \* connect, the switch of the mode, a command

\* The caller connects, switches the automatic mode on and sets a
\* temperature while the appliance reports a reading above the band.
InitRace ==
    /\ Constructed
    /\ on_update_callback = TRUE
    /\ rxset = { FrameHot }
    /\ temps = { 9 }
    /\ devs = {}
    /\ paramset = {}
    /\ maxcalls = MaxRaceCalls

NextRace ==
    \/ connect \/ enable_auto_compressor_control \/ set_temperature
    \/ method_return
    \/ BuildStep(Caller)
    \/ \E t \in Listeners : ListenerStep(t)

SpecRace == InitRace /\ [][NextRace]_vars

\* C23: with one caller and one Listener, every build advances the counter
\* by one step of its cycle (no increment is lost), and the frame a build
\* produces does not carry the sequence number of the frame built before it.
C23_NoDuplicateSequence ==
    [][ Cardinality({ u \in Listeners : pc[u] # "unstarted" }) <= 1
        => \A t \in Threads :
             /\ (pc[t] = "b_write" /\ pc'[t] # "b_write")
                => frame_num' = next_frame_num(frame_num)
             /\ (pc[t] = "b_frame" /\ pc'[t] # "b_frame" /\ tx.frame # << >>)
                => Slice(tx'.frame, 6, 8) # Slice(tx.frame, 6, 8) ]_vars

====
